---- MODULE Spec2Model ----
(***************************************************************************)
(* A model of OperaPowerTools/opt.py: the three sorting functions, the     *)
(* file move/copy helpers, kill_process, random_within_boundary_box,       *)
(* enumerate_directory and sanitize_text.  The functions share no state,   *)
(* so each family has its own variables and its own specification; a       *)
(* family's actions leave the other families' variables alone.             *)
(***************************************************************************)
EXTENDS Integers, Sequences, FiniteSets, TLC

VARIABLES
    \* ---- sorting (bubble_sort, selection_sort, insertion_sort)
    s,            \* the caller's input sequence
    sortPc,       \* position in the function being run
    arr,          \* the list being sorted in place
    i, j,         \* loop counters
    swapped,      \* bubble_sort's flag
    min_index,    \* selection_sort's index of the minimum
    key,          \* insertion_sort's element being inserted
    out,          \* what each function returned: [bubble, selection, insertion]
    passes,       \* bubble_sort: passes of the inner loop started
    swaps,        \* bubble_sort: swaps made
    \* ---- file_move / file_copy
    files, dirs,  \* the filesystem: paths that are files, paths that are directories
    fileCall,     \* the last call and how it ended
    \* ---- kill_process
    procs,        \* the live process table: pid -> [name, alive, protected]
    killPc,       \* position in kill_process
    killArgs,     \* the call's arguments [process_name, process_list]
    process_list, \* the effective process list (line 559)
    best_match,   \* find_best_match's answer
    score,        \* the similarity scorer's score of each option for the target
    iter,         \* psutil.process_iter: the pids still to visit
    cur,          \* the process the loop holds: [pid, name]
    success,      \* kill_process's flag
    killLog,      \* what the call did: snapshot taken, kills attempted, kills made
    killRet,      \* how the call ended
    \* ---- random_within_boundary_box
    boxCall,      \* the last call and how it ended
    \* ---- enumerate_directory
    node,         \* what the filesystem holds at the path given
    dirCall,      \* the last call and how it ended
    \* ---- sanitize_text
    textCall      \* the last call and how it ended

sortVars == <<s, sortPc, arr, i, j, swapped, min_index, key, out, passes, swaps>>
fileVars == <<files, dirs, fileCall>>
killVars == <<procs, killPc, killArgs, process_list, best_match, score, iter, cur,
              success, killLog, killRet>>
boxVars  == <<boxCall>>
dirVars  == <<node, dirCall>>
textVars == <<textCall>>
vars == <<sortVars, fileVars, killVars, boxVars, dirVars, textVars>>

None == "None"

(***************************************************************************)
(* The state of a family no call has touched.                              *)
(***************************************************************************)
SortIdle ==
    /\ s = <<>> /\ sortPc = "idle" /\ arr = <<>> /\ i = 0 /\ j = 0
    /\ swapped = FALSE /\ min_index = 0 /\ key = 0
    /\ out = [bubble |-> <<>>, selection |-> <<>>, insertion |-> <<>>]
    /\ passes = 0 /\ swaps = 0
FileIdle ==
    /\ files = {} /\ dirs = {}
    /\ fileCall = [op |-> "none", source |-> <<>>, destination |-> <<>>, pc |-> "idle",
                   success |-> FALSE, message |-> "", carried |-> FALSE,
                   sourceExisted |-> FALSE]
KillIdle ==
    /\ procs = <<>> /\ killPc = "idle"
    /\ killArgs = [process_name |-> "", given |-> FALSE, process_list |-> <<>>]
    /\ process_list = <<>> /\ best_match = None /\ score = <<>> /\ iter = <<>>
    /\ cur = 0 /\ success = FALSE
    /\ killLog = [snapshots |-> 0, matched |-> FALSE, attempts |-> {}, killed |-> {}]
    /\ killRet = [ended |-> "no", value |-> FALSE]
BoxIdle ==
    boxCall = [pc |-> "idle", x |-> 0, y |-> 0, h |-> 0, w |-> 0,
               centered |-> FALSE, px |-> 0, py |-> 0]
DirIdle ==
    /\ node = [kind |-> "absent", readable |-> TRUE, entries |-> <<>>]
    /\ dirCall = [pc |-> "idle", path |-> "", levels |-> 0, key |-> "", errors |-> <<>>,
                  listing |-> <<>>, scanned |-> FALSE]
TextIdle ==
    textCall = [pc |-> "idle", text |-> <<>>, more_keywords |-> <<>>,
                sanitized |-> <<>>, log_message |-> <<>>]

(***************************************************************************)
(* Sorting.  Each function is run on its own copy of the input s, one      *)
(* loop step per action, in the order bubble, selection, insertion.        *)
(***************************************************************************)
MaxLen == 4
MaxVal == 1
Vals == (-1) .. MaxVal

SeqsUpTo(S, n) == UNION {[1 .. k -> S] : k \in 0 .. n}

Swap(a, p, q) == [a EXCEPT ![p] = a[q], ![q] = a[p]]

\* bubble_sort with an inner loop one comparison short
BubbleInnerShort(n, ii) == n - ii - 2
\* bubble_sort with an inner loop that does not shrink from pass to pass
BubbleInnerWhole(n, ii) == IF ii = n - 1 THEN 0 ELSE n - 1
\* Python's range(n - i - 1) of bubble_sort's inner loop, as the number of values
BubbleInnerRange(n, ii) == n - ii - 1

\* arr[j] > arr[j + 1], with Python's 0-based j
BubbleOutOfOrder(a, jj) == a[jj + 1] > a[jj + 2]

SortUnchanged == UNCHANGED <<fileVars, killVars, boxVars, dirVars, textVars>>

\* for i in range(n): swapped = False
BubbleOuter ==
    /\ sortPc = "bubble_outer"
    /\ IF i < Len(arr)
       THEN /\ swapped' = FALSE
            /\ j' = 0
            /\ passes' = passes + 1
            /\ sortPc' = "bubble_inner"
            /\ UNCHANGED out
       ELSE /\ out' = [out EXCEPT !.bubble = arr]
            /\ sortPc' = "selection_start"
            /\ UNCHANGED <<swapped, j, passes>>
    /\ UNCHANGED <<s, arr, i, min_index, key, swaps>>
    /\ SortUnchanged

\* for j in range(n - i - 1): if arr[j] > arr[j + 1]: swap; swapped = True
BubbleInner ==
    /\ sortPc = "bubble_inner"
    /\ IF j < BubbleInnerRange(Len(arr), i)
       THEN /\ IF BubbleOutOfOrder(arr, j)
               THEN /\ arr' = Swap(arr, j + 1, j + 2)
                    /\ swapped' = TRUE
                    /\ swaps' = swaps + 1
               ELSE UNCHANGED <<arr, swapped, swaps>>
            /\ j' = j + 1
            /\ UNCHANGED sortPc
       ELSE /\ sortPc' = "bubble_check"
            /\ UNCHANGED <<arr, swapped, swaps, j>>
    /\ UNCHANGED <<s, i, min_index, key, out, passes>>
    /\ SortUnchanged

\* if not swapped: break; return arr
BubbleCheck ==
    /\ sortPc = "bubble_check"
    /\ IF ~swapped
       THEN /\ out' = [out EXCEPT !.bubble = arr]
            /\ sortPc' = "selection_start"
            /\ UNCHANGED i
       ELSE /\ i' = i + 1
            /\ sortPc' = "bubble_outer"
            /\ UNCHANGED out
    /\ UNCHANGED <<s, arr, j, swapped, min_index, key, passes, swaps>>
    /\ SortUnchanged

\* selection_sort(s): n = len(arr)
SelectionStart ==
    /\ sortPc = "selection_start"
    /\ arr' = s
    /\ i' = 0
    /\ sortPc' = "selection_outer"
    /\ UNCHANGED <<s, j, swapped, min_index, key, out, passes, swaps>>
    /\ SortUnchanged

\* for i in range(n): min_index = i
SelectionOuter ==
    /\ sortPc = "selection_outer"
    /\ IF i < Len(arr)
       THEN /\ min_index' = i
            /\ j' = i + 1
            /\ sortPc' = "selection_inner"
            /\ UNCHANGED out
       ELSE /\ out' = [out EXCEPT !.selection = arr]
            /\ sortPc' = "insertion_start"
            /\ UNCHANGED <<min_index, j>>
    /\ UNCHANGED <<s, arr, i, swapped, key, passes, swaps>>
    /\ SortUnchanged

\* arr[j] < arr[min_index], with Python's 0-based indices
SelectionSmaller(a, jj, m) == a[jj + 1] < a[m + 1]

\* for j in range(i + 1, n): if arr[j] < arr[min_index]: min_index = j
\* and, after the loop, arr[i], arr[min_index] = arr[min_index], arr[i]
SelectionInner ==
    /\ sortPc = "selection_inner"
    /\ IF j < Len(arr)
       THEN /\ min_index' = IF SelectionSmaller(arr, j, min_index) THEN j ELSE min_index
            /\ j' = j + 1
            /\ UNCHANGED <<arr, i, sortPc>>
       ELSE /\ arr' = Swap(arr, i + 1, min_index + 1)
            /\ i' = i + 1
            /\ sortPc' = "selection_outer"
            /\ UNCHANGED <<min_index, j>>
    /\ UNCHANGED <<s, swapped, key, out, passes, swaps>>
    /\ SortUnchanged

\* insertion_sort(s)
InsertionStart ==
    /\ sortPc = "insertion_start"
    /\ arr' = s
    /\ i' = 1
    /\ sortPc' = "insertion_outer"
    /\ UNCHANGED <<s, j, swapped, min_index, key, out, passes, swaps>>
    /\ SortUnchanged

\* for i in range(1, len(arr)): key = arr[i]; j = i - 1
InsertionOuter ==
    /\ sortPc = "insertion_outer"
    /\ IF i < Len(arr)
       THEN /\ key' = arr[i + 1]
            /\ j' = i - 1
            /\ sortPc' = "insertion_while"
            /\ UNCHANGED out
       ELSE /\ out' = [out EXCEPT !.insertion = arr]
            /\ sortPc' = "done"
            /\ UNCHANGED <<key, j>>
    /\ UNCHANGED <<s, arr, i, swapped, min_index, passes, swaps>>
    /\ SortUnchanged

\* the while loop's test: j >= 0 and arr[j] > key
InsertionShifts(a, jj, k) == jj >= 0 /\ a[jj + 1] > k

\* while j >= 0 and arr[j] > key: arr[j + 1] = arr[j]; j -= 1
\* and, after the loop, arr[j + 1] = key
InsertionWhile ==
    /\ sortPc = "insertion_while"
    /\ IF InsertionShifts(arr, j, key)
       THEN /\ arr' = [arr EXCEPT ![j + 2] = arr[j + 1]]
            /\ j' = j - 1
            /\ UNCHANGED <<i, sortPc>>
       ELSE /\ arr' = [arr EXCEPT ![j + 2] = key]
            /\ i' = i + 1
            /\ sortPc' = "insertion_outer"
            /\ UNCHANGED j
    /\ UNCHANGED <<s, swapped, min_index, key, out, passes, swaps>>
    /\ SortUnchanged

\* the caller's input; bubble_sort(s) starts: n = len(arr)
SortInit ==
    /\ s \in SeqsUpTo(Vals, MaxLen)
    /\ arr = s
    /\ sortPc = "bubble_outer"
    /\ i = 0 /\ j = 0 /\ swapped = FALSE /\ min_index = 0 /\ key = 0
    /\ out = [bubble |-> <<>>, selection |-> <<>>, insertion |-> <<>>]
    /\ passes = 0 /\ swaps = 0
    /\ FileIdle /\ KillIdle /\ BoxIdle /\ DirIdle /\ TextIdle

SortNext ==
    \/ BubbleOuter
    \/ BubbleInner
    \/ BubbleCheck
    \/ SelectionStart
    \/ SelectionOuter
    \/ SelectionInner
    \/ InsertionStart
    \/ InsertionOuter
    \/ InsertionWhile

\* The functions are straight-line sequential code: a step that can be taken is taken.
SortSpec == SortInit /\ [][SortNext]_vars /\ WF_vars(SortNext)

IsSorted(a) == \A p \in 1 .. Len(a) - 1 : a[p] <= a[p + 1]
Count(a, v) == Cardinality({p \in 1 .. Len(a) : a[p] = v})
IsPermutation(a, b) ==
    /\ Len(a) = Len(b)
    /\ \A v \in Vals : Count(a, v) = Count(b, v)

SortsDone == sortPc = "done"

\* C1: on every integer sequence s (the empty one and those with duplicates too)
\* the three sorts all terminate, and they return the same sequence, which is
\* non-decreasing and a permutation of s.
SortsAgreeSortedPermutation ==
    /\ [](SortsDone =>
            /\ out.bubble = out.selection
            /\ out.selection = out.insertion
            /\ IsSorted(out.bubble)
            /\ IsPermutation(out.bubble, s))
    /\ <>SortsDone

\* C1 witness: the three sorts have returned on an input with a duplicate that was
\* out of order.
SortsWitness ==
    /\ SortsDone
    /\ Len(s) >= 3
    /\ ~IsSorted(s)
    /\ \E p, q \in 1 .. Len(s) : p # q /\ s[p] = s[q]
    /\ out.insertion # s

BubbleReturned == sortPc \notin {"bubble_outer", "bubble_inner", "bubble_check"}

\* after a full pass bubble_sort returns the list as it stands if the pass made no
\* swap, and goes on to the next pass if it made one
BubbleStopsAtIdlePass ==
    sortPc = "bubble_check" =>
        IF swapped
        THEN sortPc' = "bubble_outer" /\ passes' = passes
        ELSE BubbleReturned' /\ out'.bubble = arr /\ passes' = passes

\* a comparison of pass i (the passes counted from 0) lies within the first n - i
\* elements
BubbleComparesPrefix ==
    (sortPc = "bubble_inner" /\ j' = j + 1) => j + 2 <= Len(s) - (passes - 1)

\* when bubble_sort has returned: at most n passes were made, and the last one made
\* no swap
BubbleAtMostLenPasses ==
    BubbleReturned => /\ passes <= Len(s)
                      /\ passes > 0 => ~swapped

\* C12 as stated: bubble_sort terminates on every input and stops right after the
\* first full pass that makes no swap; on an input that is already non-decreasing
\* it makes exactly one pass and no swap; on an input of length n it makes at most
\* n passes, pass i comparing only the first n - i elements.
BubbleOnePassWhenSorted ==
    /\ <>BubbleReturned
    /\ [][BubbleStopsAtIdlePass /\ BubbleComparesPrefix]_vars
    /\ [](BubbleAtMostLenPasses)
    /\ []((BubbleReturned /\ IsSorted(s)) => (passes = 1 /\ swaps = 0))

\* C12, amended: as above, but the one pass on an already non-decreasing input is
\* made when the input is not empty; on the empty input no pass is made.
BubbleOnePassWhenSortedNonEmpty ==
    /\ <>BubbleReturned
    /\ [][BubbleStopsAtIdlePass /\ BubbleComparesPrefix]_vars
    /\ [](BubbleAtMostLenPasses)
    /\ []((BubbleReturned /\ IsSorted(s)) =>
            (passes = (IF s = <<>> THEN 0 ELSE 1) /\ swaps = 0))

\* C12 witness: bubble_sort has returned early, after a pass with a swap and a
\* pass without, on an input with more elements than passes made.
BubbleEarlyExitWitness ==
    /\ BubbleReturned
    /\ ~IsSorted(s)
    /\ swaps >= 1
    /\ passes >= 2
    /\ passes < Len(s)

(***************************************************************************)
(* file_move and file_copy.  A path is the sequence of its components; the *)
(* filesystem is the set of paths that are files and the set that are      *)
(* directories.  os.makedirs, shutil.move and shutil.copy2 are the         *)
(* platform's: each either takes effect or raises, and the platform may    *)
(* refuse (permissions, a full disk) whatever the paths are.               *)
(***************************************************************************)
PathMax == 3

FilePaths ==
    {<<"a">>, <<"b">>, <<"a", "c">>, <<"b", "c">>, <<"a", "c", "c">>, <<"b", "c", "c">>}

\* os.path.dirname
Dirname(p) == SubSeq(p, 1, Len(p) - 1)
\* os.path.basename
Basename(p) == p[Len(p)]
IsPrefix(p, q) == Len(p) <= Len(q) /\ SubSeq(q, 1, Len(p)) = p
Prefixes(p) == {SubSeq(p, 1, k) : k \in 1 .. Len(p)}

\* os.path.exists
Exists(p) == p \in files \cup dirs

\* a filesystem: no path is both, and every entry lies in a directory
WellFormed(fs, ds) ==
    /\ fs \cap ds = {}
    /\ \A p \in fs \cup ds : Len(p) > 1 => Dirname(p) \in ds

\* os.makedirs(destination_dir) can take effect: no component on the way is a file
CanMakeDirs(d) == Prefixes(d) \cap files = {}

\* where shutil.move / shutil.copy2 put the source: inside destination when that
\* is a directory
Target(src, dst) == IF dst \in dirs THEN dst \o <<Basename(src)>> ELSE dst

Subtree(src) == {p \in files \cup dirs : IsPrefix(src, p)}
Rebase(p, src, tgt) == tgt \o SubSeq(p, Len(src) + 1, Len(p))

\* shutil.move(source, destination) can take effect
CanMove(src, dst) ==
    LET tgt == Target(src, dst) IN
    /\ tgt # <<>>
    /\ Len(tgt) = 1 \/ Dirname(tgt) \in dirs
    /\ ~IsPrefix(src, tgt) \/ (src = tgt /\ src \in files)
    /\ IF dst \in dirs THEN ~Exists(tgt) ELSE tgt \notin dirs
    /\ src \in dirs => ~Exists(tgt)
    /\ \A p \in Subtree(src) : Len(Rebase(p, src, tgt)) <= PathMax

\* shutil.copy2(source, destination) can take effect
CanCopy(src, dst) ==
    LET tgt == Target(src, dst) IN
    /\ src \in files
    /\ tgt # <<>> /\ tgt # src
    /\ Len(tgt) = 1 \/ Dirname(tgt) \in dirs
    /\ tgt \notin dirs
    /\ Len(tgt) <= PathMax

FileUnchanged == UNCHANGED <<sortVars, killVars, boxVars, dirVars, textVars>>

\* the caller calls file_move(source, destination) or file_copy(source, destination)
FileCallStart(op, src, dst) ==
    /\ fileCall.pc = "idle"
    /\ fileCall' = [fileCall EXCEPT !.op = op, !.source = src, !.destination = dst,
                                    !.pc = "check", !.sourceExisted = Exists(src)]
    /\ UNCHANGED <<files, dirs>>
    /\ FileUnchanged

\* if not os.path.exists(source): return False, f"Source file not found: {source}"
FileCheckSource ==
    /\ fileCall.pc = "check"
    /\ IF ~Exists(fileCall.source)
       THEN fileCall' = [fileCall EXCEPT !.pc = "returned", !.success = FALSE,
                                         !.message = "Source file not found"]
       ELSE fileCall' = [fileCall EXCEPT !.pc = "ensure_dir"]
    /\ UNCHANGED <<files, dirs>>
    /\ FileUnchanged

\* destination_dir = os.path.dirname(destination)
\* if destination_dir and not os.path.exists(destination_dir): os.makedirs(destination_dir)
\* The call stands outside the try: what makedirs raises leaves the function.
FileEnsureDir(ok) ==
    LET d == Dirname(fileCall.destination) IN
    /\ fileCall.pc = "ensure_dir"
    /\ IF d # <<>> /\ ~Exists(d)
       THEN IF ok /\ CanMakeDirs(d)
            THEN /\ dirs' = dirs \cup Prefixes(d)
                 /\ fileCall' = [fileCall EXCEPT !.pc = "transfer"]
            ELSE /\ fileCall' = [fileCall EXCEPT !.pc = "raised"]
                 /\ UNCHANGED dirs
       ELSE /\ fileCall' = [fileCall EXCEPT !.pc = "transfer"]
            /\ UNCHANGED dirs
    /\ UNCHANGED files
    /\ FileUnchanged

\* try: shutil.move(source, destination); return True, "File moved successfully"
\* except Exception as e: return False, f"Failed to move file: {e}"
FileMoveTransfer(ok) ==
    LET src == fileCall.source
        tgt == Target(src, fileCall.destination)
        moved == Subtree(src)
    IN
    /\ fileCall.pc = "transfer"
    /\ fileCall.op = "move"
    /\ IF ok /\ CanMove(src, fileCall.destination)
       THEN /\ files' = ((files \ moved) \ {tgt})
                          \cup {Rebase(p, src, tgt) : p \in moved \cap files}
            /\ dirs' = (dirs \ moved) \cup {Rebase(p, src, tgt) : p \in moved \cap dirs}
            /\ fileCall' = [fileCall EXCEPT !.pc = "returned", !.success = TRUE,
                                            !.message = "File moved successfully",
                                            !.carried = TRUE]
       ELSE /\ fileCall' = [fileCall EXCEPT !.pc = "returned", !.success = FALSE,
                                            !.message = "Failed to move file"]
            /\ UNCHANGED <<files, dirs>>
    /\ FileUnchanged

\* try: shutil.copy2(source, destination); return True, "File copied successfully"
\* except Exception as e: return False, f"Failed to copy file: {e}"
FileCopyTransfer(ok) ==
    LET src == fileCall.source
        tgt == Target(src, fileCall.destination)
    IN
    /\ fileCall.pc = "transfer"
    /\ fileCall.op = "copy"
    /\ IF ok /\ CanCopy(src, fileCall.destination)
       THEN /\ files' = files \cup {tgt}
            /\ fileCall' = [fileCall EXCEPT !.pc = "returned", !.success = TRUE,
                                            !.message = "File copied successfully",
                                            !.carried = TRUE]
       ELSE /\ fileCall' = [fileCall EXCEPT !.pc = "returned", !.success = FALSE,
                                            !.message = "Failed to copy file"]
            /\ UNCHANGED files
    /\ UNCHANGED dirs
    /\ FileUnchanged

FileInit ==
    /\ files \in SUBSET FilePaths
    /\ dirs \in SUBSET FilePaths
    /\ WellFormed(files, dirs)
    /\ fileCall = [op |-> "none", source |-> <<>>, destination |-> <<>>, pc |-> "idle",
                   success |-> FALSE, message |-> "", carried |-> FALSE,
                   sourceExisted |-> FALSE]
    /\ SortIdle /\ KillIdle /\ BoxIdle /\ DirIdle /\ TextIdle

FileNext ==
    \/ \E src \in FilePaths, dst \in FilePaths : FileCallStart("move", src, dst)
    \/ \E src \in FilePaths, dst \in FilePaths : FileCallStart("copy", src, dst)
    \/ FileCheckSource
    \/ \E ok \in BOOLEAN : FileEnsureDir(ok)
    \/ \E ok \in BOOLEAN : FileMoveTransfer(ok)
    \/ \E ok \in BOOLEAN : FileCopyTransfer(ok)

FileSpec == FileInit /\ [][FileNext]_vars

\* C2: file_move and file_copy never raise: every call ends by returning a
\* (success, message) pair with a message; success is False when the source did
\* not exist, and True only when the move or copy was carried out.
FileOpsNeverRaise ==
    /\ fileCall.pc # "raised"
    /\ fileCall.pc = "returned" =>
          /\ fileCall.message # ""
          /\ ~fileCall.sourceExisted => ~fileCall.success
          /\ fileCall.success => fileCall.carried

(***************************************************************************)
(* kill_process, with find_best_match and get_processes.  The process      *)
(* table is the operating system's: processes exit on their own while the  *)
(* kill loop runs.  psutil.process_iter(['name']) takes the list of pids   *)
(* when the loop starts and reads each process's name when it reaches it:  *)
(* a process gone by then is skipped, and a name psutil may not read is    *)
(* None (its ad_value).  The similarity scorer is rapidfuzz's: the model   *)
(* lets it give any score to any option but 100 to the target itself.      *)
(***************************************************************************)
MaxProcs == 3
MaxList == 2
ScoreCutoff == 90

Pids == 1 .. MaxProcs
LiveNames == {"chrome", "Chrome", "bash"}
OptionNames == {"chrome", "bash"}
TargetNames == {"Chrome", "bash"}
Scores == {89, ScoreCutoff, 100}

\* str.lower
Lower(name) == IF name = "Chrome" THEN "chrome" ELSE name

\* get_processes(): the lowercased names of the running processes that have one
RECURSIVE NamesFrom(_, _)
NamesFrom(table, pid) ==
    IF pid > Len(table) THEN <<>>
    ELSE IF table[pid].alive /\ table[pid].name # None
         THEN <<Lower(table[pid].name)>> \o NamesFrom(table, pid + 1)
         ELSE NamesFrom(table, pid + 1)
GetProcesses == NamesFrom(procs, 1)

\* psutil.process_iter: the pids running when the loop starts, in order
RECURSIVE PidsFrom(_, _)
PidsFrom(table, pid) ==
    IF pid > Len(table) THEN <<>>
    ELSE IF table[pid].alive
         THEN <<pid>> \o PidsFrom(table, pid + 1)
         ELSE PidsFrom(table, pid + 1)

\* process.extractOne(target, options, score_cutoff=90): the first option with the
\* highest score, when that score reaches the cutoff
ReachesCutoff(x) == x >= ScoreCutoff
FindBestMatch(options, sc) ==
    LET good == {k \in 1 .. Len(options) : ReachesCutoff(sc[options[k]])}
        best == {k \in good : \A m \in good : sc[options[m]] <= sc[options[k]]}
    IN  IF good = {} THEN None
        ELSE options[CHOOSE k \in best : \A m \in best : k <= m]

KillUnchanged == UNCHANGED <<sortVars, fileVars, boxVars, dirVars, textVars>>

NoKillLog == [snapshots |-> 0, matched |-> FALSE, attempts |-> {}, killed |-> {}]
NoKillRet == [ended |-> "no", value |-> FALSE]

\* the caller calls kill_process(process_name) or kill_process(process_name, process_list)
\* process_list = process_list or get_processes()
\* if not process_list: return False
KillCall(name, given, list) ==
    LET taken == ~given \/ list = <<>>
        effective == IF taken THEN GetProcesses ELSE list
    IN
    /\ killPc = "idle"
    /\ killArgs' = [process_name |-> name, given |-> given, process_list |-> list]
    /\ process_list' = effective
    /\ killLog' = [killLog EXCEPT !.snapshots = IF taken THEN 1 ELSE 0]
    /\ IF effective = <<>>
       THEN /\ killPc' = "returned"
            /\ killRet' = [ended |-> "returned", value |-> FALSE]
       ELSE /\ killPc' = "match"
            /\ UNCHANGED killRet
    /\ UNCHANGED <<procs, best_match, score, iter, cur, success>>
    /\ KillUnchanged

\* best_match = find_best_match(process_name.lower(), process_list)
\* if not best_match: return False
\* success = False; for process in psutil.process_iter(['name']):
KillMatch(sc) ==
    LET target == Lower(killArgs.process_name)
        found == FindBestMatch(process_list, sc)
    IN
    /\ killPc = "match"
    /\ target \in OptionNames => sc[target] = 100
    /\ \A n \in OptionNames :
          (\A k \in 1 .. Len(process_list) : process_list[k] # n) => sc[n] = 89
    /\ score' = sc
    /\ best_match' = found
    /\ IF found = None
       THEN /\ killPc' = "returned"
            /\ killRet' = [ended |-> "returned", value |-> FALSE]
            /\ UNCHANGED <<iter, success, killLog>>
       ELSE /\ killPc' = "loop"
            /\ success' = FALSE
            /\ iter' = PidsFrom(procs, 1)
            /\ killLog' = [killLog EXCEPT !.matched = TRUE]
            /\ UNCHANGED killRet
    /\ UNCHANGED <<procs, killArgs, process_list, cur>>
    /\ KillUnchanged

\* the loop header and its test: the next process still running is taken,
\* if process.info['name'].lower() == best_match
\* (None has no lower(): the AttributeError leaves the function); at the end of
\* the table, return success
KillLoop ==
    /\ killPc = "loop"
    /\ IF iter = <<>>
       THEN /\ killPc' = "returned"
            /\ killRet' = [ended |-> "returned", value |-> success]
            /\ UNCHANGED <<iter, cur>>
       ELSE LET pid == Head(iter) IN
            /\ iter' = Tail(iter)
            /\ IF ~procs[pid].alive
               THEN UNCHANGED <<killPc, killRet, cur>>
               ELSE IF procs[pid].name = None
               THEN /\ killPc' = "raised"
                    /\ killRet' = [ended |-> "raised", value |-> FALSE]
                    /\ UNCHANGED cur
               ELSE IF Lower(procs[pid].name) = best_match
               THEN /\ killPc' = "kill"
                    /\ cur' = pid
                    /\ UNCHANGED killRet
               ELSE UNCHANGED <<killPc, killRet, cur>>
    /\ UNCHANGED <<procs, killArgs, process_list, best_match, score, success, killLog>>
    /\ KillUnchanged

\* try: process.kill(); success = True
\* except (psutil.NoSuchProcess, psutil.AccessDenied): print(...)
KillAttempt(denied) ==
    /\ killPc = "kill"
    /\ killLog' = [killLog EXCEPT
                      !.attempts = @ \cup {cur},
                      !.killed = IF procs[cur].alive /\ ~denied THEN @ \cup {cur} ELSE @]
    /\ IF procs[cur].alive /\ ~denied
       THEN /\ procs' = [procs EXCEPT ![cur].alive = FALSE]
            /\ success' = TRUE
       ELSE UNCHANGED <<procs, success>>
    /\ killPc' = "loop"
    /\ cur' = 0
    /\ UNCHANGED <<killArgs, process_list, best_match, score, iter, killRet>>
    /\ KillUnchanged

\* the operating system: a process the loop has yet to deal with exits
ProcExit(pid) ==
    /\ killPc \in {"loop", "kill"}
    /\ pid \in DOMAIN procs
    /\ procs[pid].alive
    /\ pid = cur \/ \E k \in 1 .. Len(iter) : iter[k] = pid
    /\ procs' = [procs EXCEPT ![pid].alive = FALSE]
    /\ UNCHANGED <<killPc, killArgs, process_list, best_match, score, iter, cur,
                   success, killLog, killRet>>
    /\ KillUnchanged

KillInit ==
    /\ procs \in UNION {[1 .. n -> [name : LiveNames \cup {None}, alive : {TRUE}]] :
                           n \in 0 .. MaxProcs}
    /\ killPc = "idle"
    /\ killArgs = [process_name |-> "", given |-> FALSE, process_list |-> <<>>]
    /\ process_list = <<>>
    /\ best_match = None
    /\ score = [n \in OptionNames |-> 89]
    /\ iter = <<>>
    /\ cur = 0
    /\ success = FALSE
    /\ killLog = NoKillLog
    /\ killRet = NoKillRet
    /\ SortIdle /\ FileIdle /\ BoxIdle /\ DirIdle /\ TextIdle

KillNext ==
    \/ \E name \in TargetNames : KillCall(name, FALSE, <<>>)
    \/ \E name \in TargetNames, list \in SeqsUpTo(OptionNames, MaxList) :
          KillCall(name, TRUE, list)
    \/ \E sc \in [OptionNames -> Scores] : KillMatch(sc)
    \/ KillLoop
    \/ \E denied \in BOOLEAN : KillAttempt(denied)
    \/ \E pid \in Pids : ProcExit(pid)

KillSpec == KillInit /\ [][KillNext]_vars

KillEnded == killRet.ended # "no"
NameMatches(pid) == procs[pid].name # None /\ Lower(procs[pid].name) = best_match

\* C3: once a name is matched, a failure on one process of the table (it vanished,
\* the kill is denied, its entry changed) never aborts the batch: the call does not
\* raise, and when it has ended every process still running under the matched name
\* has had its kill attempt.
KillBatchNeverAborts ==
    /\ killRet.ended # "raised"
    /\ (KillEnded /\ killLog.matched) =>
          \A pid \in 1 .. Len(procs) :
              (procs[pid].alive /\ NameMatches(pid)) => pid \in killLog.attempts

\* C4: kill_process returns True if and only if a kill of a process of the matched
\* name succeeded during the call; with an empty process list, or no candidate
\* reaching the cutoff of 90, it returns False and kills nothing.
KillReturnsTrueIffKilled ==
    KillEnded =>
       /\ (killRet.ended = "returned" /\ killRet.value) <=> killLog.killed # {}
       /\ \A pid \in killLog.killed : NameMatches(pid)
       /\ (process_list = <<>>
             \/ \A k \in 1 .. Len(process_list) : score[process_list[k]] < ScoreCutoff)
          => /\ killRet.ended = "returned" /\ ~killRet.value
             /\ killLog.attempts = {}

\* C11: kill_process calls get_processes only when the caller supplied no
\* process_list: whenever a process_list is supplied, the empty list included, the
\* match is made against exactly that list and no snapshot is taken.
KillSnapshotOnlyWhenNotSupplied ==
    killPc # "idle" =>
        IF killArgs.given
        THEN killLog.snapshots = 0 /\ process_list = killArgs.process_list
        ELSE killLog.snapshots = 1

(***************************************************************************)
(* random_within_boundary_box.  The arguments are floats; the model draws  *)
(* them from the multiples of 1/2 and writes a value v as the integer 2v   *)
(* (so w / 2 is a whole number of quarters, and exact in floating point).  *)
(***************************************************************************)
MaxHalves == 3

Halves == (-MaxHalves) .. MaxHalves

\* Python's int() of the float num / den: truncation towards zero
Trunc(num, den) == IF num >= 0 THEN num \div den ELSE -((-num) \div den)

\* lines 442-447: (x_min, x_max) or (y_min, y_max) from a coordinate c and an
\* extent e, both in halves
BoxMin(c, e, centered) == IF centered THEN Trunc(2 * c - e, 4) ELSE Trunc(c, 2)
BoxMax(c, e, centered) == IF centered THEN Trunc(2 * c + e, 4) ELSE Trunc(c + e, 2)

\* line 449: if x_min > x_max or y_min > y_max: raise ValueError
BoxInvalid(x, y, h, w, centered) ==
    \/ BoxMin(x, w, centered) > BoxMax(x, w, centered)
    \/ BoxMin(y, h, centered) > BoxMax(y, h, centered)

BoxUnchanged == UNCHANGED <<sortVars, fileVars, killVars, dirVars, textVars>>

\* the caller calls random_within_boundary_box(x, y, h, w, centered)
BoxCall(x, y, h, w, centered) ==
    /\ boxCall.pc = "idle"
    /\ boxCall' = [boxCall EXCEPT !.pc = "called", !.x = x, !.y = y, !.h = h, !.w = w,
                                  !.centered = centered]
    /\ BoxUnchanged

\* the ValueError of line 450
BoxRaise ==
    /\ boxCall.pc = "called"
    /\ BoxInvalid(boxCall.x, boxCall.y, boxCall.h, boxCall.w, boxCall.centered)
    /\ boxCall' = [boxCall EXCEPT !.pc = "raised"]
    /\ BoxUnchanged

\* line 452: return random.randint(x_min, x_max), random.randint(y_min, y_max)
BoxReturn ==
    /\ boxCall.pc = "called"
    /\ ~BoxInvalid(boxCall.x, boxCall.y, boxCall.h, boxCall.w, boxCall.centered)
    /\ \E px \in BoxMin(boxCall.x, boxCall.w, boxCall.centered)
                    .. BoxMax(boxCall.x, boxCall.w, boxCall.centered),
          py \in BoxMin(boxCall.y, boxCall.h, boxCall.centered)
                    .. BoxMax(boxCall.y, boxCall.h, boxCall.centered) :
          boxCall' = [boxCall EXCEPT !.pc = "returned", !.px = px, !.py = py]
    /\ BoxUnchanged

BoxInit ==
    /\ boxCall = [pc |-> "idle", x |-> 0, y |-> 0, h |-> 0, w |-> 0,
                  centered |-> FALSE, px |-> 0, py |-> 0]
    /\ SortIdle /\ FileIdle /\ KillIdle /\ DirIdle /\ TextIdle

BoxNext ==
    \/ \E x, y, h, w \in Halves, centered \in BOOLEAN : BoxCall(x, y, h, w, centered)
    \/ BoxRaise
    \/ BoxReturn

BoxSpec == BoxInit /\ [][BoxNext]_vars

\* C5: a point returned lies within the rectangle of the arguments: from x to
\* x + w and from y to y + h, or, centered, from x - w/2 to x + w/2 and from
\* y - h/2 to y + h/2 (in halves and quarters here).
BoxPointWithinRectangle ==
    boxCall.pc = "returned" =>
       IF boxCall.centered
       THEN /\ 2 * boxCall.x - boxCall.w <= 4 * boxCall.px
            /\ 4 * boxCall.px <= 2 * boxCall.x + boxCall.w
            /\ 2 * boxCall.y - boxCall.h <= 4 * boxCall.py
            /\ 4 * boxCall.py <= 2 * boxCall.y + boxCall.h
       ELSE /\ boxCall.x <= 2 * boxCall.px
            /\ 2 * boxCall.px <= boxCall.x + boxCall.w
            /\ boxCall.y <= 2 * boxCall.py
            /\ 2 * boxCall.py <= boxCall.y + boxCall.h

\* C6: the call fails, and returns no point, whenever the width or the height is
\* zero or negative, centered or not: a point is returned only when both are
\* positive.
BoxRejectsNonPositive ==
    /\ (boxCall.pc \in {"raised", "returned"} /\ (boxCall.w <= 0 \/ boxCall.h <= 0)) => boxCall.pc = "raised"
    /\ boxCall.pc = "returned" => (boxCall.w > 0 /\ boxCall.h > 0)

(***************************************************************************)
(* enumerate_directory.  What the filesystem holds at the path is absent,  *)
(* a file or a directory; a directory is the sequence of its entries in    *)
(* os.scandir's order.  An entry is a file, a subdirectory, something that *)
(* is neither ("other": a socket, a dangling link) or an entry whose       *)
(* is_file() raises PermissionError ("denied").  A directory that may not  *)
(* be read makes os.scandir itself raise PermissionError.  The model's     *)
(* directories hold at most two entries, at most one of them a directory.  *)
(***************************************************************************)
MaxLevels == 1

\* directories nest one level deeper than any call recurses
TreeDepth == MaxLevels + 1

DirPaths == {"data", "error"}

Leaf(kind, name) == [name |-> name, kind |-> kind, readable |-> TRUE, entries |-> <<>>]
Leaves(name) == {Leaf(kind, name) : kind \in {"file", "other", "denied"}}

RECURSIVE Contents(_)
SubDirs(name, d) ==
    IF d = 0 THEN {}
    ELSE {[name |-> name, kind |-> "dir", readable |-> FALSE, entries |-> <<>>]}
         \cup {[name |-> name, kind |-> "dir", readable |-> TRUE, entries |-> es] :
                  es \in Contents(d - 1)}
Contents(d) ==
    {<<>>}
    \cup {<<e>> : e \in Leaves("a") \cup SubDirs("a", d)}
    \cup {<<e, f>> : e \in Leaves("a"), f \in Leaves("b") \cup SubDirs("b", d)}
    \cup {<<e, f>> : e \in SubDirs("a", d), f \in Leaves("b")}

\* an item of a result list: a file's name, or the single-key mapping
\* {entry.name: subdir_contents}
FileItem(name) == [isDir |-> FALSE, name |-> name, contents |-> <<>>]
DirItem(name, sub) == [isDir |-> TRUE, name |-> name, contents |-> sub]

\* line 336: ... and depth > 0
Recurses(depth) == depth > 0

\* line 338 with every subdirectory kept
KeepsAnySubdir(sub) == TRUE
\* line 338: if subdir_contents:
KeepsSubdir(sub) == sub # <<>>

\* _scan_directory(directory, depth): the loop over os.scandir(directory) from
\* entry k on; a PermissionError ends the loop and keeps what was collected
RECURSIVE ScanEntries(_, _, _)
ScanDirectory(entries, readable, depth) ==
    IF ~readable THEN <<>> ELSE ScanEntries(entries, 1, depth)
ScanEntries(entries, k, depth) ==
    IF k > Len(entries) THEN <<>>
    ELSE LET e == entries[k] IN
         IF e.kind = "denied" THEN <<>>
         ELSE IF e.kind = "file" THEN <<FileItem(e.name)>> \o ScanEntries(entries, k + 1, depth)
         ELSE IF e.kind = "dir" /\ Recurses(depth)
         THEN LET sub == ScanDirectory(e.entries, e.readable, depth - 1) IN
              IF KeepsSubdir(sub)
              THEN <<DirItem(e.name, sub)>> \o ScanEntries(entries, k + 1, depth)
              ELSE ScanEntries(entries, k + 1, depth)
         ELSE ScanEntries(entries, k + 1, depth)

\* os.path.exists(path) and os.path.isdir(path), lines 347 and 350
PathExists(n) == n.kind # "absent"
PathIsAnything(n) == TRUE
PathIsDir(n) == n.kind = "dir"

DirUnchanged == UNCHANGED <<sortVars, fileVars, killVars, boxVars, textVars>>

\* enumerate_directory(path, levels)
EnumerateDirectory(path, levels) ==
    /\ dirCall.pc = "idle"
    /\ dirCall' =
          IF ~PathExists(node)
          THEN [pc |-> "returned", path |-> path, levels |-> levels, key |-> "error",
                errors |-> <<[text |-> "Directory does not exist: ", path |-> path]>>,
                listing |-> <<>>, scanned |-> FALSE]
          ELSE IF ~PathIsDir(node)
          THEN [pc |-> "returned", path |-> path, levels |-> levels, key |-> "error",
                errors |-> <<[text |-> "Path is not a directory: ", path |-> path]>>,
                listing |-> <<>>, scanned |-> FALSE]
          ELSE [pc |-> "returned", path |-> path, levels |-> levels, key |-> path,
                errors |-> <<>>,
                listing |-> ScanDirectory(node.entries, node.readable, levels),
                scanned |-> TRUE]
    /\ UNCHANGED node
    /\ DirUnchanged

NoDirCall ==
    [pc |-> "idle", path |-> "", levels |-> 0, key |-> "", errors |-> <<>>,
     listing |-> <<>>, scanned |-> FALSE]

DirInit ==
    /\ node \in {[kind |-> "absent", readable |-> TRUE, entries |-> <<>>],
                 [kind |-> "file", readable |-> TRUE, entries |-> <<>>],
                 [kind |-> "dir", readable |-> FALSE, entries |-> <<>>]}
                \cup {[kind |-> "dir", readable |-> TRUE, entries |-> es] :
                         es \in Contents(TreeDepth)}
    /\ dirCall = NoDirCall
    /\ SortIdle /\ FileIdle /\ KillIdle /\ BoxIdle /\ TextIdle

DirNext == \E path \in DirPaths, levels \in 0 .. MaxLevels : EnumerateDirectory(path, levels)

DirSpec == DirInit /\ [][DirNext]_vars

DirReturned == dirCall.pc = "returned"

\* C7: when the path does not exist or is no directory the call returns (it does
\* not raise) the mapping whose only key is "error", its value a list of exactly
\* one message that names the path, and nothing is scanned; for a directory the
\* only key is the path.
DirErrorResult ==
    DirReturned =>
       IF node.kind # "dir"
       THEN /\ dirCall.key = "error"
            /\ Len(dirCall.errors) = 1
            /\ dirCall.errors[1].path = dirCall.path
            /\ ~dirCall.scanned
            /\ dirCall.listing = <<>>
       ELSE /\ dirCall.key = dirCall.path
            /\ dirCall.errors = <<>>

\* C7 witness: a call on a path that is a file has returned
DirErrorWitness == DirReturned /\ node.kind = "file" /\ dirCall.path = "data"

\* every file of a result list lies within the depth budget, the list's own
\* files being at depth 1
RECURSIVE FilesWithin(_, _)
FilesWithin(list, budget) ==
    \A k \in 1 .. Len(list) :
        IF list[k].isDir THEN FilesWithin(list[k].contents, budget - 1) ELSE budget >= 1

\* C9: no file deeper than `levels` (the path's direct children being at depth 1)
\* is in the result; with levels = 1 the result holds files only, no nested mapping.
DirDepthAtMostLevels ==
    (DirReturned /\ node.kind = "dir") =>
       /\ FilesWithin(dirCall.listing, dirCall.levels)
       /\ dirCall.levels = 1 => \A k \in 1 .. Len(dirCall.listing) : ~dirCall.listing[k].isDir

\* the entries the loop of _scan_directory reaches: those before the first one
\* that raises PermissionError
Reached(entries) ==
    {k \in 1 .. Len(entries) : \A m \in 1 .. k : entries[m].kind # "denied"}

\* a directory's scan with `depth` levels left returns at least one entry: it can
\* be read and the loop reaches a file, or a subdirectory that itself lists something
RECURSIVE ListsSomething(_, _, _)
ListsSomething(entries, readable, depth) ==
    /\ readable
    /\ \E k \in Reached(entries) :
          \/ entries[k].kind = "file"
          \/ /\ entries[k].kind = "dir"
             /\ depth > 0
             /\ ListsSomething(entries[k].entries, entries[k].readable, depth - 1)

\* the result list of a directory scanned with `depth` levels left: its nested
\* mappings are non-empty, and exactly the subdirectories the loop reached with
\* depth left whose own scan lists something; so on, into each of them
RECURSIVE SubdirsAsClaimed(_, _, _)
SubdirsAsClaimed(entries, list, depth) ==
    /\ \A k \in 1 .. Len(list) : list[k].isDir => list[k].contents # <<>>
    /\ \A k \in 1 .. Len(entries) :
          entries[k].kind = "dir" =>
             LET here == {m \in 1 .. Len(list) : list[m].isDir /\ list[m].name = entries[k].name}
             IN  /\ Cardinality(here) <= 1
                 /\ here # {} <=>
                       /\ k \in Reached(entries)
                       /\ depth > 0
                       /\ ListsSomething(entries[k].entries, entries[k].readable, depth - 1)
                 /\ \A m \in here :
                       SubdirsAsClaimed(entries[k].entries, list[m].contents, depth - 1)

MaxFragments == 2

FoldMap ==
    "A" :> "a" @@ "B" :> "b" @@ "C" :> "c" @@ "D" :> "d" @@ "E" :> "e" @@ "F" :> "f" @@
    "G" :> "g" @@ "H" :> "h" @@ "I" :> "i" @@ "J" :> "j" @@ "K" :> "k" @@ "L" :> "l" @@
    "M" :> "m" @@ "N" :> "n" @@ "O" :> "o" @@ "P" :> "p" @@ "Q" :> "q" @@ "R" :> "r" @@
    "S" :> "s" @@ "T" :> "t" @@ "U" :> "u" @@ "V" :> "v" @@ "W" :> "w" @@ "X" :> "x" @@
    "Y" :> "y" @@ "Z" :> "z"
Digits == {"0", "1", "2", "3", "4", "5", "6", "7", "8", "9"}
WordChars == DOMAIN FoldMap \cup {FoldMap[c] : c \in DOMAIN FoldMap} \cup Digits \cup {"_"}

\* what re.IGNORECASE compares: a character with its case folded
Fold(c) == IF c \in DOMAIN FoldMap THEN FoldMap[c] ELSE c

\* \w and \s
IsWordChar(c) == c \in WordChars
IsSpace(c) == c \in {" ", "\t", "\n"}

\* the tokens of a pattern
B == [t |-> "b", c |-> ""]
S1 == [t |-> "s+", c |-> ""]
Dot == [t |-> "any", c |-> ""]
Ch(c) == [t |-> "c", c |-> c]
Lit(w) == [k \in 1 .. Len(w) |-> Ch(w[k])]

\* lines 283-287
BLACKLISTED_KEYWORDS == <<
    <<B>> \o Lit(<<"i", "m", "p", "o", "r", "t">>) \o <<B>>,
    <<B>> \o Lit(<<"e", "x", "e", "c">>) \o <<B>>,
    <<B>> \o Lit(<<"e", "v", "a", "l">>) \o <<B>>,
    <<B>> \o Lit(<<"s", "y", "s", "t", "e", "m", "(">>),
    <<B>> \o Lit(<<"o", "s", ".">>),
    <<B>> \o Lit(<<"s", "u", "b", "p", "r", "o", "c", "e", "s", "s", ".">>),
    <<B>> \o Lit(<<"r", "m">>) \o <<S1>> \o Lit(<<"-", "r", "f">>) \o <<B>>,
    <<B>> \o Lit(<<"r", "m", "d", "i", "r">>) \o <<B>>,
    <<B>> \o Lit(<<"d", "e", "l">>) \o <<B>>,
    <<B>> \o Lit(<<"o", "p", "e", "n", "(">>),
    <<B>> \o Lit(<<"w", "r", "i", "t", "e", "(">>),
    <<B>> \o Lit(<<"r", "e", "a", "d", "(">>),
    <<B>> \o Lit(<<"c", "h", "m", "o", "d">>) \o <<B>>,
    <<B>> \o Lit(<<"c", "h", "o", "w", "n">>) \o <<B>> >>

\* a keyword put into the pattern as it is: its "." matches any character
Unescaped(k) == [n \in 1 .. Len(k) |-> IF k[n] = "." THEN Dot ELSE Ch(k[n])]
\* re.escape(k): every character of the keyword stands for itself
Escape(k) == Lit(k)

\* \b at position p: between text[p - 1] and text[p], one of them a word character
AtBoundary(text, p) ==
    (p > 1 /\ IsWordChar(text[p - 1])) # (p <= Len(text) /\ IsWordChar(text[p]))

\* the whitespace characters from position p on
SpaceRun(text, p) ==
    Cardinality({n \in p .. Len(text) : \A m \in p .. n : IsSpace(text[m])})

Max(S) == CHOOSE x \in S : \A y \in S : y <= x

\* the position after the match of the pattern's tokens k.. at position p, or 0
RECURSIVE MatchAt(_, _, _, _)
MatchAt(pat, k, text, p) ==
    IF k > Len(pat) THEN p
    ELSE LET tok == pat[k] IN
         IF tok.t = "b"
         THEN IF AtBoundary(text, p) THEN MatchAt(pat, k + 1, text, p) ELSE 0
         ELSE IF tok.t = "c"
         THEN IF p <= Len(text) /\ Fold(text[p]) = Fold(tok.c)
              THEN MatchAt(pat, k + 1, text, p + 1) ELSE 0
         ELSE IF tok.t = "any"
         THEN IF p <= Len(text) /\ text[p] # "\n"
              THEN MatchAt(pat, k + 1, text, p + 1) ELSE 0
         ELSE \* \s+ is greedy: the longest run whose rest matches
              LET good == {n \in 1 .. SpaceRun(text, p) :
                              MatchAt(pat, k + 1, text, p + n) # 0}
              IN  IF good = {} THEN 0 ELSE MatchAt(pat, k + 1, text, p + Max(good))

\* re.search(combined_pattern, text, re.IGNORECASE): [start, end] of the match,
\* end the position after it, or [0, 0] for None
Search(alts, text) ==
    LET hits == {p \in 1 .. Len(text) + 1 :
                    \E a \in 1 .. Len(alts) : MatchAt(alts[a], 1, text, p) # 0}
    IN  IF hits = {} THEN [start |-> 0, end |-> 0]
        ELSE LET p == CHOOSE x \in hits : \A y \in hits : x <= y
                 as == {a \in 1 .. Len(alts) : MatchAt(alts[a], 1, text, p) # 0}
                 a == CHOOSE x \in as : \A y \in as : x <= y
             IN  [start |-> p, end |-> MatchAt(alts[a], 1, text, p)]

\* lines 290 and 293: the caller's keywords, escaped, after the denylist
CombinedPattern(more_keywords) ==
    BLACKLISTED_KEYWORDS \o [k \in 1 .. Len(more_keywords) |-> Escape(more_keywords[k])]

TextUnchanged == UNCHANGED <<sortVars, fileVars, killVars, boxVars, dirVars>>

\* sanitize_text(text, more_keywords), more_keywords a list of strings
SanitizeText(text, more_keywords) ==
    LET match == Search(CombinedPattern(more_keywords), text) IN
    /\ textCall.pc = "idle"
    /\ textCall' =
          IF match.start # 0
          THEN [pc |-> "returned", text |-> text, more_keywords |-> more_keywords,
                sanitized |-> <<>>,
                log_message |->
                    <<[s |-> "Blocked potentially dangerous input: ", v |-> text],
                      [s |-> " matches keyword ",
                       v |-> SubSeq(text, match.start, match.end - 1)]>>]
          ELSE [pc |-> "returned", text |-> text, more_keywords |-> more_keywords,
                sanitized |-> text, log_message |-> <<>>]
    /\ TextUnchanged

Fragments ==
    {<<"d", "e", "l">>, <<"D", "e", "L">>, <<"m", "o">>, <<" ">>, <<"o", "s", ".">>,
     <<"n", "a">>, <<"N", "A">>, <<"_">>, <<"r", "m">>, <<"-", "R", "F">>,
     <<"o", "p", "e", "n", "(">>, <<"r", "m", " ", "\t">>}

RECURSIVE TextsOf(_)
TextsOf(n) ==
    IF n = 0 THEN {<<>>}
    ELSE TextsOf(n - 1) \cup {t \o f : t \in TextsOf(n - 1), f \in Fragments}

KeywordLists ==
    {<<>>, << <<"n", "a">> >>, << <<".">> >>, << <<>> >>,
     << <<"(">>, <<"N", "a">> >>}

TextInit ==
    /\ textCall = [pc |-> "idle", text |-> <<>>, more_keywords |-> <<>>,
                   sanitized |-> <<>>, log_message |-> <<>>]
    /\ SortIdle /\ FileIdle /\ KillIdle /\ BoxIdle /\ DirIdle

TextNext ==
    \E text \in TextsOf(MaxFragments), more_keywords \in KeywordLists :
        SanitizeText(text, more_keywords)

TextSpec == TextInit /\ [][TextNext]_vars

\* the text matches a pattern of the denylist, case ignored
DenylistHit(text) ==
    \E a \in 1 .. Len(BLACKLISTED_KEYWORDS), p \in 1 .. Len(text) + 1 :
        MatchAt(BLACKLISTED_KEYWORDS[a], 1, text, p) # 0

\* k occurs in text, character for character
ContainsExact(text, k) ==
    \E p \in 1 .. Len(text) + 1 :
        /\ p + Len(k) - 1 <= Len(text)
        /\ \A n \in 1 .. Len(k) : text[p + n - 1] = k[n]

\* k occurs in text, case ignored
ContainsFolded(text, k) ==
    \E p \in 1 .. Len(text) + 1 :
        /\ p + Len(k) - 1 <= Len(text)
        /\ \A n \in 1 .. Len(k) : Fold(text[p + n - 1]) = Fold(k[n])

TextBlocked == textCall.sanitized = <<>> /\ textCall.log_message # <<>>
TextPassed == textCall.sanitized = textCall.text /\ textCall.log_message = <<>>

\* C8 as stated: the result is ("", diagnostic) when the text matches a denylist
\* pattern, case ignored, or holds one of the caller's keywords as a literal
\* substring, and (text, "") otherwise.
TextBlockedIffLiteralKeyword ==
    textCall.pc = "returned" =>
       IF \/ DenylistHit(textCall.text)
          \/ \E k \in 1 .. Len(textCall.more_keywords) :
                ContainsExact(textCall.text, textCall.more_keywords[k])
       THEN TextBlocked
       ELSE TextPassed

\* C8 amended: the caller's keywords too are matched with case ignored: the result
\* is ("", diagnostic) when the text matches a denylist pattern or holds one of
\* the caller's keywords as a literal substring, case ignored in both, and
\* (text, "") otherwise.
TextBlockedIffFoldedKeyword ==
    textCall.pc = "returned" =>
       IF \/ DenylistHit(textCall.text)
          \/ \E k \in 1 .. Len(textCall.more_keywords) :
                ContainsFolded(textCall.text, textCall.more_keywords[k])
       THEN TextBlocked
       ELSE TextPassed

\* C8 witness: a text that matches no denylist pattern is blocked for a keyword
\* of the caller that occurs in it in another case
TextKeywordWitness ==
    /\ textCall.pc = "returned"
    /\ TextBlocked
    /\ ~DenylistHit(textCall.text)
    /\ \A k \in 1 .. Len(textCall.more_keywords) :
          ~ContainsExact(textCall.text, textCall.more_keywords[k])

====
